---- MODULE Spec2Model ----
(***************************************************************************)
(* Model of mesonbuild/compilers/mixins/arm.py: the two ARM compiler       *)
(* mixins (ArmCompiler, ArmclangCompiler), their four module-level flag    *)
(* tables, the armlink version validation performed by                     *)
(* ArmclangCompiler.__init__, and compute_parameters_with_absolute_paths.  *)
(*                                                                         *)
(* Python strings are sequences of one-character strings, so that slicing  *)
(* (i[:2]), regular-expression search and path normalisation are computed  *)
(* character by character.  Python lists are objects with identity: a     *)
(* reference is <<"caller">> (the list the caller built) or                *)
(* <<table, key>> (the list stored in a module-level table).               *)
(***************************************************************************)
EXTENDS Integers, Sequences, FiniteSets, TLC

\* Longest argument list the caller builds.
MaxArgs == 2

\* Most calls of compute_parameters_with_absolute_paths on one caller list.
MaxRewrites == 2

(***************************************************************************)
(* Strings                                                                 *)
(***************************************************************************)
\* Python's None (no string of single characters equals it).
None == <<"None">>

Digits == {"0", "1", "2", "3", "4", "5", "6", "7", "8", "9"}

Letters ==
    {"a", "b", "c", "d", "e", "f", "g", "h", "i", "j", "k", "l", "m",
     "n", "o", "p", "q", "r", "s", "t", "u", "v", "w", "x", "y", "z",
     "A", "B", "C", "D", "E", "F", "G", "H", "I", "J", "K", "L", "M",
     "N", "O", "P", "Q", "R", "S", "T", "U", "V", "W", "X", "Y", "Z"}

\* s[:n]
Prefix(s, n) == SubSeq(s, 1, IF Len(s) < n THEN Len(s) ELSE n)

\* s[n:]
Suffix(s, n) == SubSeq(s, n + 1, Len(s))

\* s.startswith(p)
StartsWith(s, p) == Len(s) >= Len(p) /\ SubSeq(s, 1, Len(p)) = p

\* s.endswith(p)
EndsWith(s, p) == Len(s) >= Len(p) /\ SubSeq(s, Len(s) - Len(p) + 1, Len(s)) = p

\* p in s
Contains(s, p) == \E k \in 1..(Len(s) - Len(p) + 1) : SubSeq(s, k, k + Len(p) - 1) = p

\* Number of consecutive characters of class cls starting at position i of s.
RECURSIVE Run(_, _, _)
Run(s, i, cls) ==
    IF i >= 1 /\ i <= Len(s) /\ s[i] \in cls THEN 1 + Run(s, i + 1, cls) ELSE 0

(***************************************************************************)
(* os.path.join and os.path.normpath (POSIX flavour), as called on line    *)
(* 125 and line 196.                                                       *)
(***************************************************************************)
os_path_join(a, b) ==
    IF StartsWith(b, <<"/">>) THEN b
    ELSE IF a = <<>> \/ EndsWith(a, <<"/">>) THEN a \o b
    ELSE a \o <<"/">> \o b

\* path.split('/')
RECURSIVE SplitSlash(_)
SplitSlash(s) ==
    IF \A k \in 1..Len(s) : s[k] # "/" THEN <<s>>
    ELSE LET k == CHOOSE j \in 1..Len(s) :
                      s[j] = "/" /\ \A m \in 1..(j - 1) : s[m] # "/"
         IN  <<SubSeq(s, 1, k - 1)>> \o SplitSlash(SubSeq(s, k + 1, Len(s)))

\* '/'.join(comps)
RECURSIVE JoinSlash(_)
JoinSlash(comps) ==
    IF comps = <<>> THEN <<>>
    ELSE IF Len(comps) = 1 THEN comps[1]
    ELSE comps[1] \o <<"/">> \o JoinSlash(Tail(comps))

DotDot == <<".", ".">>

\* The loop of normpath over the components: new_comps after comps[1..n].
RECURSIVE NormComps(_, _, _)
NormComps(comps, n, initial_slashes) ==
    IF n = 0 THEN <<>>
    ELSE LET new_comps == NormComps(comps, n - 1, initial_slashes)
             comp == comps[n]
         IN  IF comp = <<>> \/ comp = <<".">> THEN new_comps
             ELSE IF comp # DotDot
                     \/ (initial_slashes = 0 /\ new_comps = <<>>)
                     \/ (new_comps # <<>> /\ new_comps[Len(new_comps)] = DotDot)
                  THEN Append(new_comps, comp)
             ELSE IF new_comps # <<>>
                  THEN SubSeq(new_comps, 1, Len(new_comps) - 1)
             ELSE new_comps

os_path_normpath(path) ==
    IF path = <<>> THEN <<".">>
    ELSE LET initial_slashes ==
                 IF ~StartsWith(path, <<"/">>) THEN 0
                 ELSE IF StartsWith(path, <<"/", "/">>)
                         /\ ~StartsWith(path, <<"/", "/", "/">>) THEN 2
                 ELSE 1
             comps == SplitSlash(path)
             joined == JoinSlash(NormComps(comps, Len(comps), initial_slashes))
             res == IF initial_slashes = 0 THEN joined
                    ELSE IF initial_slashes = 1 THEN <<"/">> \o joined
                    ELSE <<"/", "/">> \o joined
         IN  IF res = <<>> THEN <<".">> ELSE res

(***************************************************************************)
(* Regular expressions of ArmclangCompiler.__init__                        *)
(***************************************************************************)
\* re.search('.*Component.*', stdo): '.' does not match a line break, so the
\* match is the whole first line that holds "Component"; None without one.
re_search_Component(stdo) ==
    LET hits == {k \in 1..Len(stdo) :
                     Contains(stdo[k], <<"C", "o", "m", "p", "o", "n", "e", "n", "t">>)}
    IN  IF hits = {} THEN None
        ELSE stdo[CHOOSE k \in hits : \A m \in hits : k <= m]

\* (\.\d+)+ matched greedily from the '.' at position j: index of its last digit.
RECURSIVE DottedGroupsEnd(_, _)
DottedGroupsEnd(s, j) ==
    LET e == j + Run(s, j + 1, Digits)
    IN  IF e + 1 <= Len(s) /\ s[e + 1] = "." /\ Run(s, e + 2, Digits) >= 1
        THEN DottedGroupsEnd(s, e + 1)
        ELSE e

\* End of the match of version_regex that starts at position i, 0 if none:
\* (?<!(\d|\.)) then \d{1,2} then (\.\d+)+ then (-[a-zA-Z0-9]+)?
VersionMatchEnd(s, i) ==
    LET n == Run(s, i, Digits)
        h == IF n >= 2 THEN 2 ELSE 1
        j == i + h
    IN  IF i > 1 /\ s[i - 1] \in Digits \cup {"."} THEN 0
        ELSE IF n = 0 THEN 0
        ELSE IF ~(j <= Len(s) /\ s[j] = "." /\ Run(s, j + 1, Digits) >= 1) THEN 0
        ELSE LET e == DottedGroupsEnd(s, j)
                 a == Run(s, e + 2, Digits \cup Letters)
             IN  IF e + 1 <= Len(s) /\ s[e + 1] = "-" /\ a >= 1
                 THEN e + 1 + a
                 ELSE e

\* re.search(version_regex, ver_str) followed by .group(0); None without a match.
re_search_version(ver_str) ==
    LET starts == {i \in 1..Len(ver_str) : VersionMatchEnd(ver_str, i) > 0}
    IN  IF starts = {} THEN None
        ELSE LET i == CHOOSE k \in starts : \A m \in starts : k <= m
             IN  SubSeq(ver_str, i, VersionMatchEnd(ver_str, i))

\* mesonlib.version_compare(vstr1, vstr2) for the one condition the mixin
\* passes, '==' followed by a version: strict equality of the two versions.
version_compare(vstr1, vstr2) ==
    IF StartsWith(vstr2, <<"=", "=">>) THEN vstr1 = Suffix(vstr2, 2)
    ELSE vstr1 = vstr2

(***************************************************************************)
(* Module-level flag tables                                                *)
(***************************************************************************)
arm_buildtype_args ==
    [k \in {"plain", "debug", "debugoptimized", "release", "minsize", "custom"} |->
        CASE k = "plain" -> <<>>
          [] k = "debug" -> << <<"-", "O", "0">>, <<"-", "-", "d", "e", "b", "u", "g">> >>
          [] k = "debugoptimized" ->
                 << <<"-", "O", "1">>, <<"-", "-", "d", "e", "b", "u", "g">> >>
          [] k = "release" -> << <<"-", "O", "3">>, <<"-", "O", "t", "i", "m", "e">> >>
          [] k = "minsize" -> << <<"-", "O", "3">>, <<"-", "O", "s", "p", "a", "c", "e">> >>
          [] k = "custom" -> <<>>]

arm_optimization_args ==
    [k \in {"0", "g", "1", "2", "3", "s"} |->
        CASE k = "0" -> << <<"-", "O", "0">> >>
          [] k = "g" -> << <<"-", "g">> >>
          [] k = "1" -> << <<"-", "O", "1">> >>
          [] k = "2" -> << <<"-", "O", "2">> >>
          [] k = "3" -> << <<"-", "O", "3">> >>
          [] k = "s" -> <<>>]

armclang_buildtype_args ==
    [k \in {"plain", "debug", "debugoptimized", "release", "minsize", "custom"} |->
        CASE k = "plain" -> <<>>
          [] k = "debug" -> << <<"-", "O", "0">>, <<"-", "g">> >>
          [] k = "debugoptimized" -> << <<"-", "O", "1">>, <<"-", "g">> >>
          [] k = "release" -> << <<"-", "O", "s">> >>
          [] k = "minsize" -> << <<"-", "O", "z">> >>
          [] k = "custom" -> <<>>]

armclang_optimization_args ==
    [k \in {"0", "g", "1", "2", "3", "s"} |->
        CASE k = "0" -> << <<"-", "O", "0">> >>
          [] k = "g" -> << <<"-", "g">> >>
          [] k = "1" -> << <<"-", "O", "1">> >>
          [] k = "2" -> << <<"-", "O", "2">> >>
          [] k = "3" -> << <<"-", "O", "3">> >>
          [] k = "s" -> << <<"-", "O", "s">> >>]

\* The module namespace after import: the four dictionaries by name.
ModuleTables ==
    [n \in {"arm_buildtype_args", "arm_optimization_args",
            "armclang_buildtype_args", "armclang_optimization_args"} |->
        CASE n = "arm_buildtype_args" -> arm_buildtype_args
          [] n = "arm_optimization_args" -> arm_optimization_args
          [] n = "armclang_buildtype_args" -> armclang_buildtype_args
          [] n = "armclang_optimization_args" -> armclang_optimization_args]

(***************************************************************************)
(* Inputs                                                                  *)
(***************************************************************************)
\* self.version values the host compiler class may hold: "6.15" and "6.4".
Versions == {<<"6", ".", "1", "5">>, <<"6", ".", "4">>}

\* Texts armlink may write to standard output, as sequences of lines.
Stdouts ==
    { \* Product: 6.4 / Component: ARM Compiler 6.15 / Tool: armlink 6.15
      << <<"P", "r", "o", "d", "u", "c", "t", ":", " ", "6", ".", "4">>,
         <<"C", "o", "m", "p", "o", "n", "e", "n", "t", ":", " ", "A", "R", "M", " ",
           "C", "o", "m", "p", "i", "l", "e", "r", " ", "6", ".", "1", "5">>,
         <<"T", "o", "o", "l", ":", " ", "a", "r", "m", "l", "i", "n", "k", " ",
           "6", ".", "1", "5">> >>,
      \* Component: ARM Compiler 6.4
      << <<"C", "o", "m", "p", "o", "n", "e", "n", "t", ":", " ", "A", "R", "M", " ",
           "C", "o", "m", "p", "i", "l", "e", "r", " ", "6", ".", "4">> >>,
      \* Component: v6.15-b2
      << <<"C", "o", "m", "p", "o", "n", "e", "n", "t", ":", " ", "v",
           "6", ".", "1", "5", "-", "b", "2">> >>,
      \* Tool: armlink 6.15   (no Component line)
      << <<"T", "o", "o", "l", ":", " ", "a", "r", "m", "l", "i", "n", "k", " ",
           "6", ".", "1", "5">> >>,
      \* empty output
      <<>>,
      \* Component: armlink   (no version on the Component line)
      << <<"C", "o", "m", "p", "o", "n", "e", "n", "t", ":", " ",
           "a", "r", "m", "l", "i", "n", "k">> >>,
      \* Component: build 123.4   (digits, but no token the pattern accepts)
      << <<"C", "o", "m", "p", "o", "n", "e", "n", "t", ":", " ",
           "b", "u", "i", "l", "d", " ", "1", "2", "3", ".", "4">> >> }

\* str(e) of the OSError that Popen_safe may raise.
OSErrors ==
    { <<"[Errno 2] No such file or directory: 'armlink'">>,
      <<"[Errno 13] Permission denied: 'armlink'">> }

\* Keys callers pass to the lookups: the two vocabularies and a stray key.
Keys ==
    {"plain", "debug", "debugoptimized", "release", "minsize", "custom",
     "0", "g", "1", "2", "3", "s", "bogus"}

\* Tokens the caller puts into an argument list.
Tokens ==
    { <<"-", "I", ".", ".", "/", "i", "n", "c">>,        \* -I../inc
      <<"-", "I">>,                                      \* -I
      <<"-", "L", "/", "l", "i", "b", "/", ".", "/", "x">>, \* -L/lib/./x
      <<"-", "O", "2">>,                                 \* -O2
      <<"-">>,                                           \* -
      <<"i", "n", "c", "/", ".", ".">> }                 \* inc/..

\* build_dir values: /build, b (relative) and the empty string.
BuildDirs == { <<"/", "b", "u", "i", "l", "d">>, <<"b">>, <<>> }

(***************************************************************************)
(* State                                                                   *)
(***************************************************************************)
VARIABLES
    tables,               \* the four module-level dictionaries: name -> key -> list
    caller_list,          \* the list object the caller built itself
    args_ref,             \* the list the caller's variable refers to
    rewrites,             \* compute_parameters_with_absolute_paths calls on caller_list
    last_op,              \* the method called last on the profile
    last_key,             \* its key argument
    last_dir,             \* its build_dir argument
    last_exc,             \* the exception it raised
    arg_before,           \* contents of parameter_list when it was called
    result_ref,           \* the list it returned
    cls,                  \* class of the profile under construction
    is_cross,             \* self.is_cross
    version,              \* self.version
    pc,                   \* position in __init__
    launched,             \* commands handed to Popen_safe by this construction
    stdo,                 \* local stdo
    oserr,                \* str(e) of the OSError caught on line 139
    ver_str,              \* local ver_str
    linker_ver,           \* local linker_ver
    exc,                  \* the exception __init__ raised
    id,                   \* self.id
    base_options,         \* self.base_options
    can_compile_suffixes, \* suffixes the mixin added to self.can_compile_suffixes
    warn_args             \* self.warn_args

caller_vars ==
    <<caller_list, args_ref, rewrites, last_op, last_key, last_dir, last_exc,
      arg_before, result_ref>>

init_vars ==
    <<cls, is_cross, version, pc, launched, stdo, oserr, ver_str, linker_ver, exc, id,
      base_options, can_compile_suffixes, warn_args>>

vars == <<tables, caller_vars, init_vars>>

NoExc == [type |-> "None", msg |-> <<>>]

EnvironmentException(msg) == [type |-> "EnvironmentException", msg |-> msg]

CallerRef == <<"caller">>

\* The list object a reference designates.
Deref(ref) == IF ref = CallerRef THEN caller_list ELSE tables[ref[1]][ref[2]]

NoWarnArgs == [k \in {} |-> <<>>]

\* stdo before Popen_safe returned.
NoStdo == <<None>>

Init ==
    /\ tables = ModuleTables
    /\ caller_list = <<>>
    /\ args_ref = CallerRef
    /\ rewrites = 0
    /\ last_op = "none"
    /\ last_key = "none"
    /\ last_dir = None
    /\ last_exc = NoExc
    /\ arg_before = <<>>
    /\ result_ref = None
    /\ cls = "none"
    /\ is_cross = FALSE
    /\ version = None
    /\ pc = "idle"
    /\ launched = <<>>
    /\ stdo = NoStdo
    /\ oserr = None
    /\ ver_str = None
    /\ linker_ver = None
    /\ exc = NoExc
    /\ id = None
    /\ base_options = <<>>
    /\ can_compile_suffixes = {}
    /\ warn_args = NoWarnArgs

\* No call has been made on the profile yet: the caller starts with nothing.
CallerFresh ==
    /\ caller_list' = <<>>
    /\ args_ref' = CallerRef
    /\ rewrites' = 0
    /\ last_op' = "none"
    /\ last_key' = "none"
    /\ last_dir' = None
    /\ last_exc' = NoExc
    /\ arg_before' = <<>>
    /\ result_ref' = None

(***************************************************************************)
(* ArmCompiler.__init__ and ArmclangCompiler.__init__                      *)
(***************************************************************************)
\* A mutated cross-compilation test that never raises.
raises_cross_only_never(cross) == FALSE

\* `if not self.is_cross: raise ...`
raises_cross_only(cross) == ~cross

\* A mutated comparison that accepts every linker version.
linker_version_mismatch_never(v, lv) == FALSE

\* `not mesonlib.version_compare(self.version, '==' + linker_ver)`
linker_version_mismatch(v, lv) == ~version_compare(v, <<"=", "=">> \o lv)

\* The host class has set is_cross and version; __init__ starts with fresh locals.
EnterInit(c, cross, ver) ==
    /\ pc \in {"idle", "done", "raised"}
    /\ cls' = c
    /\ is_cross' = cross
    /\ version' = ver
    /\ launched' = <<>>
    /\ stdo' = NoStdo
    /\ oserr' = None
    /\ ver_str' = None
    /\ linker_ver' = None
    /\ CallerFresh
    /\ UNCHANGED tables

ArmCompiler_init(cross, ver) ==
    /\ EnterInit("ArmCompiler", cross, ver)
    /\ base_options' = <<>>
    /\ IF raises_cross_only(cross)
       THEN /\ exc' = EnvironmentException(
                          << <<"armcc supports only cross-compilation.">> >>)
            /\ pc' = "raised"
            /\ id' = None
            /\ warn_args' = NoWarnArgs
            /\ can_compile_suffixes' = {}
       ELSE /\ exc' = NoExc
            /\ pc' = "done"
            /\ id' = <<"arm">>
            /\ warn_args' = [k \in {"0", "1", "2", "3"} |-> <<>>]
            /\ can_compile_suffixes' = {"s"}

\* Lines 132-136: the cross check, then linker_exe and args are set.
ArmclangCompiler_init_enter(cross, ver) ==
    /\ EnterInit("ArmclangCompiler", cross, ver)
    /\ id' = None
    /\ base_options' = <<>>
    /\ warn_args' = NoWarnArgs
    /\ can_compile_suffixes' = {}
    /\ IF raises_cross_only(cross)
       THEN /\ exc' = EnvironmentException(
                          << <<"armclang supports only cross-compilation.">> >>)
            /\ pc' = "raised"
       ELSE /\ exc' = NoExc
            /\ pc' = "popen"

linker_exe == <<"a", "r", "m", "l", "i", "n", "k">>

vsn_args == <<"-", "-", "v", "s", "n">>

\* ' '.join([self.linker_exe] + [args])
linker_command == linker_exe \o <<" ">> \o vsn_args

\* A mutated launch that tries once more after an OSError.
ArmclangCompiler_init_popen_retry ==
    /\ pc = "popen"
    /\ launched' = Append(launched, linker_command)
    /\ \/ \E text \in Stdouts :
            /\ stdo' = text
            /\ oserr' = None
            /\ pc' = "verify"
            /\ exc' = NoExc
       \/ \E e \in OSErrors :
            /\ stdo' = NoStdo
            /\ oserr' = e
            /\ IF Len(launched) = 0
               THEN pc' = "popen" /\ exc' = NoExc
               ELSE /\ pc' = "raised"
                    /\ exc' = EnvironmentException(
                                  << <<"Unknown linker\nRunning \"">>, linker_command,
                                     <<"\" gave \n\"">>, e, <<"\"">> >>)
    /\ UNCHANGED <<tables, caller_vars, cls, is_cross, version, ver_str, linker_ver,
                   id, base_options, can_compile_suffixes, warn_args>>

\* Lines 137-141: Popen_safe(self.linker_exe, args) returns the captured
\* output or raises OSError, which __init__ turns into EnvironmentException.
ArmclangCompiler_init_popen ==
    /\ pc = "popen"
    /\ launched' = Append(launched, linker_command)
    /\ \/ \E text \in Stdouts :
            /\ stdo' = text
            /\ oserr' = None
            /\ pc' = "verify"
            /\ exc' = NoExc
       \/ \E e \in OSErrors :
            /\ stdo' = NoStdo
            /\ oserr' = e
            /\ pc' = "raised"
            /\ exc' = EnvironmentException(
                          << <<"Unknown linker\nRunning \"">>, linker_command,
                             <<"\" gave \n\"">>, e, <<"\"">> >>)
    /\ UNCHANGED <<tables, caller_vars, cls, is_cross, version, ver_str, linker_ver,
                   id, base_options, can_compile_suffixes, warn_args>>

\* Lines 143-161.  Line 147 builds an EnvironmentException without raising
\* it, so without a Component line control reaches `assert ver_str`: an
\* AssertionError, or under python -O (assertions stripped) a TypeError from
\* re.search(version_regex, None).  Without a version token linker_ver stays
\* None and '==' + linker_ver raises TypeError.
ArmclangCompiler_init_verify ==
    /\ pc = "verify"
    /\ LET found == re_search_Component(stdo)
           lv == IF found = None THEN None ELSE re_search_version(found)
       IN  /\ ver_str' = found
           /\ linker_ver' = lv
           /\ IF found = None
              THEN /\ pc' = "raised"
                   /\ \/ exc' = [type |-> "AssertionError", msg |-> <<>>]
                      \/ exc' = [type |-> "TypeError",
                                 msg |-> << <<"expected string or bytes-like object">> >>]
                   /\ UNCHANGED <<id, base_options, can_compile_suffixes>>
              ELSE IF lv = None
              THEN /\ pc' = "raised"
                   /\ exc' = [type |-> "TypeError",
                              msg |-> << <<"can only concatenate str (not \"NoneType\") to str">> >>]
                   /\ UNCHANGED <<id, base_options, can_compile_suffixes>>
              ELSE IF linker_version_mismatch(version, lv)
              THEN /\ pc' = "raised"
                   /\ exc' = EnvironmentException(
                                 << <<"armlink version does not match with compiler version">> >>)
                   /\ UNCHANGED <<id, base_options, can_compile_suffixes>>
              ELSE /\ pc' = "done"
                   /\ exc' = NoExc
                   /\ id' = <<"armclang">>
                   /\ base_options' = <<"b_pch", "b_lto", "b_pgo", "b_sanitize",
                                        "b_coverage", "b_ndebug", "b_staticpic",
                                        "b_colorout">>
                   /\ can_compile_suffixes' = {"s"}
    /\ UNCHANGED <<tables, caller_vars, cls, is_cross, version, launched, stdo,
                   oserr, warn_args>>

(***************************************************************************)
(* Lookups in the flag tables                                              *)
(***************************************************************************)
\* `return table[key]`: the list object stored in the dictionary itself, or
\* KeyError for a key the dictionary does not hold.
ReturnTableEntry(op, table, key) ==
    /\ pc = "done"
    /\ last_op' = op
    /\ last_key' = key
    /\ last_dir' = None
    /\ arg_before' = <<>>
    /\ IF key \in DOMAIN tables[table]
       THEN /\ last_exc' = NoExc
            /\ result_ref' = <<table, key>>
            /\ args_ref' = <<table, key>>
            /\ caller_list' = <<>>
            /\ rewrites' = 0
       ELSE /\ last_exc' = [type |-> "KeyError", msg |-> << <<key>> >>]
            /\ result_ref' = None
            /\ UNCHANGED <<args_ref, caller_list, rewrites>>
    /\ UNCHANGED <<tables, init_vars>>

\* A mutated lookup that reads the optimization table.
ArmclangCompiler_get_buildtype_args_wrong_table(buildtype) ==
    /\ cls = "ArmclangCompiler"
    /\ ReturnTableEntry("get_buildtype_args", "armclang_optimization_args", buildtype)

ArmCompiler_get_buildtype_args(buildtype) ==
    /\ cls = "ArmCompiler"
    /\ ReturnTableEntry("get_buildtype_args", "arm_buildtype_args", buildtype)

ArmCompiler_get_optimization_args(optimization_level) ==
    /\ cls = "ArmCompiler"
    /\ ReturnTableEntry("get_optimization_args", "arm_optimization_args",
                        optimization_level)

ArmclangCompiler_get_buildtype_args(buildtype) ==
    /\ cls = "ArmclangCompiler"
    /\ ReturnTableEntry("get_buildtype_args", "armclang_buildtype_args", buildtype)

ArmclangCompiler_get_optimization_args(optimization_level) ==
    /\ cls = "ArmclangCompiler"
    /\ ReturnTableEntry("get_optimization_args", "armclang_optimization_args",
                        optimization_level)

(***************************************************************************)
(* compute_parameters_with_absolute_paths                                  *)
(***************************************************************************)
\* A mutated test that also takes -O for a path flag.
is_path_flag_with_O(i) ==
    \/ Prefix(i, 2) = <<"-", "I">>
    \/ Prefix(i, 2) = <<"-", "L">>
    \/ Prefix(i, 2) = <<"-", "O">>

\* `i[:2] == '-I' or i[:2] == '-L'`
is_path_flag(i) == Prefix(i, 2) = <<"-", "I">> \/ Prefix(i, 2) = <<"-", "L">>

\* A mutated rewrite that stores the path without its flag.
absolute_path_parameter_no_flag(i, build_dir) ==
    os_path_normpath(os_path_join(build_dir, Suffix(i, 2)))

\* `i[:2] + os.path.normpath(os.path.join(build_dir, i[2:]))`
absolute_path_parameter(i, build_dir) ==
    Prefix(i, 2) \o os_path_normpath(os_path_join(build_dir, Suffix(i, 2)))

\* The for loop: parameter_list[idx] is overwritten for each path flag, in
\* the list object that was passed, and that same object is returned.
compute_parameters_with_absolute_paths(build_dir) ==
    /\ pc = "done"
    /\ rewrites < MaxRewrites
    /\ LET parameter_list == Deref(args_ref)
           rewritten == [idx \in 1..Len(parameter_list) |->
                            IF is_path_flag(parameter_list[idx])
                            THEN absolute_path_parameter(parameter_list[idx], build_dir)
                            ELSE parameter_list[idx]]
       IN  /\ arg_before' = parameter_list
           /\ IF args_ref = CallerRef
              THEN /\ caller_list' = rewritten
                   /\ UNCHANGED tables
              ELSE /\ tables' = [tables EXCEPT ![args_ref[1]][args_ref[2]] = rewritten]
                   /\ UNCHANGED caller_list
    /\ result_ref' = args_ref
    /\ rewrites' = rewrites + 1
    /\ last_op' = "compute_parameters_with_absolute_paths"
    /\ last_key' = "none"
    /\ last_dir' = build_dir
    /\ last_exc' = NoExc
    /\ UNCHANGED <<args_ref, init_vars>>

ArmCompiler_compute_parameters_with_absolute_paths(build_dir) ==
    /\ cls = "ArmCompiler"
    /\ compute_parameters_with_absolute_paths(build_dir)

ArmclangCompiler_compute_parameters_with_absolute_paths(build_dir) ==
    /\ cls = "ArmclangCompiler"
    /\ compute_parameters_with_absolute_paths(build_dir)

(***************************************************************************)
(* The caller                                                              *)
(***************************************************************************)
\* The caller starts a list of its own and adds tokens to it before it
\* hands the list to the profile.
caller_new_list ==
    /\ pc = "done"
    /\ args_ref # CallerRef \/ caller_list # <<>>
    /\ caller_list' = <<>>
    /\ args_ref' = CallerRef
    /\ rewrites' = 0
    /\ last_op' = "none"
    /\ last_key' = "none"
    /\ last_dir' = None
    /\ last_exc' = NoExc
    /\ arg_before' = <<>>
    /\ result_ref' = None
    /\ UNCHANGED <<tables, init_vars>>

caller_append(token) ==
    /\ pc = "done"
    /\ args_ref = CallerRef
    /\ rewrites = 0
    /\ Len(caller_list) < MaxArgs
    /\ caller_list' = Append(caller_list, token)
    /\ UNCHANGED <<tables, args_ref, rewrites, last_op, last_key, last_dir, last_exc,
                   arg_before, result_ref, init_vars>>

Next ==
    \/ \E cross \in BOOLEAN, ver \in Versions : ArmCompiler_init(cross, ver)
    \/ \E cross \in BOOLEAN, ver \in Versions : ArmclangCompiler_init_enter(cross, ver)
    \/ ArmclangCompiler_init_popen
    \/ ArmclangCompiler_init_verify
    \/ \E k \in Keys : ArmCompiler_get_buildtype_args(k)
    \/ \E k \in Keys : ArmCompiler_get_optimization_args(k)
    \/ \E k \in Keys : ArmclangCompiler_get_buildtype_args(k)
    \/ \E k \in Keys : ArmclangCompiler_get_optimization_args(k)
    \/ \E d \in BuildDirs : ArmCompiler_compute_parameters_with_absolute_paths(d)
    \/ \E d \in BuildDirs : ArmclangCompiler_compute_parameters_with_absolute_paths(d)
    \/ caller_new_list
    \/ \E t \in Tokens : caller_append(t)

Spec == Init /\ [][Next]_vars

(***************************************************************************)
(* Properties                                                              *)
(***************************************************************************)
Terminated == pc \in {"done", "raised"}

\* The message of an exception holds the string s as one of its parts.
Carries(e, s) == \E k \in 1..Len(e.msg) : e.msg[k] = s

Component == <<"C", "o", "m", "p", "o", "n", "e", "n", "t">>

CrossCompilationRequired ==
    IF cls = "ArmCompiler"
    THEN EnvironmentException(<< <<"armcc supports only cross-compilation.">> >>)
    ELSE EnvironmentException(<< <<"armclang supports only cross-compilation.">> >>)

LinkerVersionUnparseable ==
    EnvironmentException(<< <<"armlink version string not found">> >>)

ToolchainVersionMismatch ==
    EnvironmentException(<< <<"armlink version does not match with compiler version">> >>)

\* Popen_safe returned and lines 143-161 ran to their end or to a raise.
Verified == cls = "ArmclangCompiler" /\ Terminated /\ stdo # NoStdo

\* C1: for ArmCompiler and for ArmclangCompiler, construction with is_cross
\* false has raised the cross-compilation error of its class and has handed
\* no command to Popen_safe.
C1_CrossOnlyNoLaunch ==
    (cls \in {"ArmCompiler", "ArmclangCompiler"} /\ ~is_cross) =>
        /\ pc = "raised"
        /\ exc = CrossCompilationRequired
        /\ launched = <<>>
        /\ id = None

C1_Witness ==
    /\ cls = "ArmclangCompiler"
    /\ ~is_cross
    /\ pc = "raised"
    /\ exc = EnvironmentException(<< <<"armclang supports only cross-compilation.">> >>)

\* C2: ArmclangCompiler construction with is_cross true assigns id and
\* base_options only when the version found in the linker output equals
\* self.version; linker 6.4 against compiler 6.15 raises the mismatch error,
\* and 6.15 against 6.15 completes.
C2_CompletesOnlyOnEqualVersions ==
    cls = "ArmclangCompiler" =>
        /\ (pc = "done" \/ id # None \/ base_options # <<>>) =>
               /\ pc = "done"
               /\ is_cross
               /\ linker_ver = version
               /\ id = <<"armclang">>
               /\ Len(base_options) = 8
        /\ (Verified /\ linker_ver = <<"6", ".", "4">>
                     /\ version = <<"6", ".", "1", "5">>) =>
               pc = "raised" /\ exc = ToolchainVersionMismatch
        /\ (Verified /\ linker_ver = <<"6", ".", "1", "5">>
                     /\ version = <<"6", ".", "1", "5">>) =>
               pc = "done" /\ exc = NoExc

C2_Witness ==
    /\ Verified
    /\ linker_ver = <<"6", ".", "4">>
    /\ version = <<"6", ".", "1", "5">>
    /\ exc = ToolchainVersionMismatch

\* C3: when the linker output holds no line with "Component", construction
\* has failed with the 'armlink version string not found' error.
C3_NoComponentLineIsUnparseable ==
    (Verified /\ \A k \in 1..Len(stdo) : ~Contains(stdo[k], Component)) =>
        pc = "raised" /\ exc = LinkerVersionUnparseable

\* C4: when a Component line is found but holds no dotted version,
\* construction has failed with the version mismatch error.
C4_NoVersionTokenIsMismatch ==
    (Verified /\ ver_str # None /\ linker_ver = None) =>
        pc = "raised" /\ exc = ToolchainVersionMismatch

\* C5: when construction fails on the version comparison, the error carries
\* the linker version and the compiler version.
C5_MismatchCarriesBothVersions ==
    (Verified /\ pc = "raised" /\ linker_ver # None) =>
        Carries(exc, linker_ver) /\ Carries(exc, version)

\* C6: the list compute_parameters_with_absolute_paths returns has the
\* length of the list passed; a token that starts with neither -I nor -L is
\* the token passed at that position, and a token that starts with -I or -L
\* keeps those two characters.
C6_RewriteKeepsCountAndPrefix ==
    last_op = "compute_parameters_with_absolute_paths" =>
        LET out == Deref(result_ref)
        IN  /\ Len(out) = Len(arg_before)
            /\ \A idx \in 1..Len(arg_before) :
                   LET i == arg_before[idx]
                       flag == Len(i) >= 2
                               /\ SubSeq(i, 1, 2) \in {<<"-", "I">>, <<"-", "L">>}
                   IN  /\ ~flag => out[idx] = i
                       /\ flag => /\ Len(out[idx]) >= 2
                                  /\ SubSeq(out[idx], 1, 2) = SubSeq(i, 1, 2)

\* ['-I../inc', x] with x no path flag, rewritten for /build.
C6_Witness ==
    /\ last_op = "compute_parameters_with_absolute_paths"
    /\ last_dir = <<"/", "b", "u", "i", "l", "d">>
    /\ Len(arg_before) = 2
    /\ arg_before[1] = <<"-", "I", ".", ".", "/", "i", "n", "c">>
    /\ arg_before[2] = <<"i", "n", "c", "/", ".", ".">>
    /\ Deref(result_ref)[1] = <<"-", "I", "/", "i", "n", "c">>

\* C7: in both classes get_buildtype_args returns a list for plain, debug,
\* debugoptimized, release, minsize and custom, raises KeyError for any
\* other key, and returns the empty list for plain and custom.
C7_BuildtypeTableTotal ==
    last_op = "get_buildtype_args" =>
        /\ last_key \in {"plain", "debug", "debugoptimized", "release", "minsize",
                         "custom"} =>
               last_exc = NoExc /\ result_ref # None
        /\ last_key \notin {"plain", "debug", "debugoptimized", "release", "minsize",
                            "custom"} =>
               last_exc.type = "KeyError" /\ result_ref = None
        /\ last_key \in {"plain", "custom"} => Deref(result_ref) = <<>>

C7_Witness ==
    /\ cls = "ArmclangCompiler"
    /\ last_op = "get_buildtype_args"
    /\ last_key = "custom"
    /\ last_exc = NoExc
    /\ Deref(result_ref) = <<>>

\* C8: an ArmclangCompiler construction that passed the cross check hands
\* 'armlink --vsn' to Popen_safe exactly once; after an OSError it has
\* raised the error that carries the command and the OSError text, and
\* nothing of lines 143-161 has run.
C8_OneLaunchAttempt ==
    (cls = "ArmclangCompiler" /\ is_cross) =>
        /\ pc = "popen" => launched = <<>>
        /\ pc \in {"verify", "done", "raised"} => launched = <<linker_command>>
        /\ oserr # None =>
               /\ pc = "raised"
               /\ exc.type = "EnvironmentException"
               /\ Carries(exc, linker_command)
               /\ Carries(exc, oserr)
               /\ stdo = NoStdo
               /\ ver_str = None
               /\ linker_ver = None
               /\ id = None
               /\ base_options = <<>>

C8_Witness ==
    /\ cls = "ArmclangCompiler"
    /\ is_cross
    /\ pc = "raised"
    /\ oserr # None
    /\ launched = <<linker_command>>

\* C9: after compute_parameters_with_absolute_paths the list that was passed
\* holds the tokens it held before the call, and a token that was rewritten
\* is found only in a returned list that is another object.
C9_RewriteLeavesArgumentAlone ==
    last_op = "compute_parameters_with_absolute_paths" =>
        /\ Deref(args_ref) = arg_before
        /\ (\E idx \in 1..Len(arg_before) : Deref(result_ref)[idx] # arg_before[idx])
               => result_ref # args_ref

\* C10: the four module-level tables hold the values they were given when
\* the module was loaded.
C10_TablesNeverChange == tables = ModuleTables

\* A list returned by a lookup was passed on to be rewritten.
C10_Witness ==
    /\ last_op = "compute_parameters_with_absolute_paths"
    /\ args_ref # CallerRef
    /\ Len(arg_before) = 2

====
